---- MODULE Spec2Model ----
(***************************************************************************)
(* Model of dandi's `ls` metadata collection loop (dandi/cli/cmd_ls.py)    *)
(* and of the validation dispatch (dandi/validate.py).                     *)
(*                                                                         *)
(* Python dicts are functions whose DOMAIN is the set of keys; Python      *)
(* lists are sequences.  None is the string "None" where the other values  *)
(* are strings, and the empty tuple where they are sets.                   *)
(***************************************************************************)
EXTENDS Integers, Sequences, FiniteSets, TLC

\* ------------------------------------------------------------------ bounds
MaxAssets == 2      \* assets the enumerator yields in one run
MaxJobs == 2        \* largest value of --jobs

\* --------------------------------------------------------- dict utilities
EmptyDict == <<>>
\* d[k] = v on a dict
Put(d, k, v) == [x \in (DOMAIN d) \cup {k} |-> IF x = k THEN v ELSE d[x]]
\* d.get(k, default)
Get(d, k, default) == IF k \in DOMAIN d THEN d[k] ELSE default
\* {k: v for k, v in d.items() if k in ks}
Restrict(d, ks) == [x \in (DOMAIN d) \cap ks |-> d[x]]
\* for k, v in src.items(): d[k] = v
Update(d, src) == [x \in (DOMAIN d) \cup (DOMAIN src) |->
                     IF x \in DOMAIN src THEN src[x] ELSE d[x]]

\* ------------------------------------------------------ ls: configuration
None == "None"
NoFields == <<>>                 \* fields=None
SomeFields(S) == <<S>>           \* fields=[...] (order is never consulted
                                 \* beyond fields[0] != "path")
common_fields == {"path", "size"}
\* consts.metadata_all_fields, cut to the one key the code singles out and
\* one ordinary metadata key
metadata_all_fields == {"nwb_version", "age"}
\* models.Dandiset.__fields__ | models.Asset.__fields__, cut to one key
schema_model_fields == {"name"}
Formats == {"pyout", "yaml"}

all_fields(sch) ==
  IF sch # None THEN common_fields \cup schema_model_fields
  ELSE common_fields \cup metadata_all_fields

\* lines 162-165: pyout always gets "path" in its field list
PyoutFields(fmt, flds) ==
  IF fmt = "pyout" /\ flds # NoFields /\ "path" \notin flds[1]
  THEN SomeFields({"path"} \cup flds[1]) ELSE flds

\* async keys that keep the common fields
AsyncKeysWithCommon(sch, flds) ==
  IF flds # NoFields THEN all_fields(sch) \cap flds[1] ELSE all_fields(sch)

\* lines 178-181
AsyncKeys(sch, flds) ==
  (IF flds # NoFields THEN all_fields(sch) \cap flds[1] ELSE all_fields(sch))
    \ common_fields

\* ------------------------------------------------------ ls: the file system
\* an existing empty file, a nonexistent path, an existing zarr directory
Paths == {"f.nwb", "m.nwb", "z.zarr"}
\* op.isdir
isdir(p) == p = "z.zarr"
\* the path exists (os.stat succeeds)
exists(p) == p # "m.nwb"
st_size(p) == 0

\* ------------------------------------------------------------ ls: values
\* Python values are tagged: <<"str", s>>, <<"int", n>>, <<"list", seq>>,
\* <<"dict", seq of <<key, value>>>>, <<"cb", i>> (the callable of asset i)
StrV(s) == <<"str", s>>
IntV(i) == <<"int", i>>
ListV(l) == <<"list", l>>
DictV(kvs) == <<"dict", kvs>>
CbV(i) == <<"cb", i>>
\* `not v`
NoneV == <<"None">>
Falsy(v) == v \in {NoneV, StrV(""), IntV(0), ListV(<<>>), DictV(<<>>)}

\* ready records the enumerator may yield for remote assets
ReadyRecords ==
  { EmptyDict,
    [path |-> StrV("r1"), schemaVersion |-> StrV("0.6.0")],
    [path |-> StrV("r2"), schemaVersion |-> StrV("0.5.0")] }

PathAsset(p) == [type |-> "str", path |-> p, rec |-> EmptyDict]
DictAsset(d) == [type |-> "dict", path |-> "", rec |-> d]

\* --------------------------------------------------- ls: the collaborators
\* what metadata extraction may return for an existing path
MetaResults(sch) ==
  IF sch # None
  THEN { [name |-> StrV("n"), schemaVersion |-> StrV(sch)] }
  ELSE { [age |-> StrV("P1Y")],
         [age |-> StrV("P1Y"), nwb_version |-> StrV("2.0")],
         [age |-> ListV(<<StrV("a"), StrV("b")>>), nwb_version |-> StrV("")] }

\* whether fn computes a digest before the extraction (lines 345-374)
NeedsDigest(p, sch, fake) == ~fake /\ ~(sch # None /\ isdir(p))

\* the outcomes of the try block of fn, lines 344-374: which collaborators
\* were called, the exception that escaped ("None" if none), the metadata
TryOutcomes(p, sch, fake) ==
  IF NeedsDigest(p, sch, fake) /\ ~exists(p)
  THEN { [digest |-> 1, extract |-> 0, exc |-> "FileNotFoundError",
          meta |-> EmptyDict] }
  ELSE LET d == IF NeedsDigest(p, sch, fake) THEN 1 ELSE 0 IN
       IF ~exists(p)
       THEN { [digest |-> d, extract |-> 1, exc |-> "FileNotFoundError",
               meta |-> EmptyDict] }
       ELSE { [digest |-> d, extract |-> 1, exc |-> None, meta |-> m] :
                m \in MetaResults(sch) }
            \cup { [digest |-> d, extract |-> 1, exc |-> "ValueError",
                    meta |-> EmptyDict] }

\* the outcomes of get_nwb_version(path), line 389
NwbVersionOutcomes(p) ==
  IF ~exists(p) THEN { [exc |-> "FileNotFoundError", v |-> StrV("")] }
  ELSE { [exc |-> None, v |-> StrV("2.0")], [exc |-> "OSError", v |-> StrV("")] }

\* ------------------------------------------------------ ls: pure helpers
RECURSIVE JoinStr(_, _)
\* sep.join(parts)
JoinStr(parts, sep) ==
  IF parts = <<>> THEN ""
  ELSE IF Len(parts) = 1 THEN parts[1]
  ELSE parts[1] \o sep \o JoinStr(Tail(parts), sep)

RECURSIVE PyRepr(_)
\* repr(v)
PyRepr(v) ==
  CASE v[1] = "str" -> "'" \o v[2] \o "'"
    [] v[1] = "int" -> ToString(v[2])
    [] v[1] = "None" -> "None"
    [] v[1] = "list" ->
         "[" \o JoinStr([i \in DOMAIN v[2] |-> PyRepr(v[2][i])], ", ") \o "]"
    [] v[1] = "dict" ->
         "{" \o JoinStr([i \in DOMAIN v[2] |->
                  "'" \o v[2][i][1] \o "': " \o PyRepr(v[2][i][2])], ", ") \o "}"
    [] OTHER -> "<function>"
\* str(v)
PyStr(v) == IF v[1] = "str" THEN v[2] ELSE PyRepr(v)

RECURSIVE flatten_v(_)
flatten_v(v) ==
  IF v[1] = "list"
  THEN StrV(JoinStr([i \in DOMAIN v[2] |-> PyStr(flatten_v(v[2][i]))], ", "))
  ELSE IF v[1] = "dict"
  THEN flatten_v(ListV([i \in DOMAIN v[2] |->
                  StrV(v[2][i][1] \o ": " \o PyStr(v[2][i][2]))]))
  ELSE v

\* a dict value as a record: its items by key
AsDict(v) ==
  LET keys == {v[2][i][1] : i \in DOMAIN v[2]}
  IN [k \in keys |-> (CHOOSE i \in DOMAIN v[2] : v[2][i][1] = k) ]
ItemsOf(v) ==
  LET idx == AsDict(v) IN [k \in DOMAIN idx |-> v[2][idx[k]][2]]

RECURSIVE flatten_meta_to_pyout_v1(_)
\* lines 280-304: nested dicts are promoted to keys "<outer>_<inner>"
flatten_meta_to_pyout_v1(meta) ==
  LET truthy == {f \in DOMAIN meta : ~Falsy(meta[f])}
      inner(f) == flatten_meta_to_pyout_v1(ItemsOf(meta[f]))
      keysOf(f) == IF meta[f][1] = "dict"
                   THEN {<<f \o "_" \o vf, f, vf>> : vf \in DOMAIN inner(f)}
                   ELSE {<<f, f, "">>}
      all == UNION {keysOf(f) : f \in truthy}
  IN [k \in {t[1] : t \in all} |->
        LET t == CHOOSE x \in all : x[1] = k
        IN IF meta[t[2]][1] = "dict" THEN flatten_v(inner(t[2])[t[3]])
           ELSE flatten_v(meta[t[2]])]

\* a flattening that keeps the empty values, as empty strings
flatten_meta_keeping_empty(meta) ==
  [f \in DOMAIN meta |-> IF Falsy(meta[f]) THEN StrV("") ELSE flatten_v(meta[f])]
\* a flattening that promotes nested dicts the way the first version did
flatten_meta_promoting(meta) == flatten_meta_to_pyout_v1(meta)

\* lines 307-327
flatten_meta_to_pyout(meta) ==
  [f \in {k \in DOMAIN meta : ~Falsy(meta[k])} |-> flatten_v(meta[f])]

\* a ledger that keeps only the last asset of a kind
add_exc_error_errors_overwrite(errs, kind, a) == Put(errs, kind, <<a>>)
\* a counter that is stored but never incremented
add_exc_error_rec_noinc(r) == Put(r, "errors", IntV(Get(r, "errors", IntV(0))[2]))

\* a lookup that installs a fresh list every time
defaultdict_getitem_fresh(errs, kind) == Put(errs, kind, <<>>)
\* line 183 and the lookup of line 247: errors[kind] on a defaultdict(list)
\* installs an empty list for a kind it has not seen and hands out the list
defaultdict_getitem(errs, kind) == Put(errs, kind, Get(errs, kind, <<>>))

\* _add_exc_error, line 247: errors[type(exc).__name__].append(asset)
add_exc_error_errors(errs, kind, a) == Put(errs, kind, Append(Get(errs, kind, <<>>), a))
\* _add_exc_error, line 248: rec["errors"] = rec.get("errors", 0) + 1
add_exc_error_rec(r) == Put(r, "errors", IntV(Get(r, "errors", IntV(0))[2] + 1))

\* fn, line 343: the extraction is skipped when only nwb_version is wanted
SkipsExtraction(keys) == keys = {"nwb_version"}

\* fn, lines 341-380: rec after the try block, the flattening and the key
\* filter, for outcome o of the try block
fn_try_rec(keys, flatten, o) ==
  LET rec0 == IF o.exc = None THEN o.meta ELSE add_exc_error_rec(EmptyDict)
      rec1 == IF flatten THEN flatten_meta_to_pyout(rec0) ELSE rec0
  IN Restrict(rec1, keys)

\* fn, lines 381-386
NeedsNwbVersion(p, r, keys) ==
  /\ ~isdir(p)
  /\ "nwb_version" \notin DOMAIN r
  /\ "bids_schema_version" \notin DOMAIN r
  /\ keys # {} /\ "nwb_version" \in keys

\* fn, lines 387-391, for outcome o of get_nwb_version
fn_fallback_rec(r, o) ==
  IF o.exc = None THEN Put(r, "nwb_version", o.v) ELSE add_exc_error_rec(r)

\* ===================================================== validate: helpers
MaxChunks == 2      \* pieces a string value of a required field is made of
MaxRequired == 2    \* length of a list of required fields

\* validate.py, lines 14-15
required_dandiset_metadata_fields == <<"identifier", "name", "description">>
required_nwb_metadata_fields == <<"subject_id">>

\* Strings are built from these pieces; " " is the only whitespace
Pieces == {" ", "a", "REQUIRED", "PLACEHOLDER"}
PieceSeqs == UNION {[1..k -> Pieces] : k \in 0..MaxChunks}
\* the pieces of a string; any other string of the model is one piece with
\* no whitespace around it
PiecesOf(str) ==
  IF \E c \in PieceSeqs : JoinStr(c, "") = str
  THEN CHOOSE c \in PieceSeqs : JoinStr(c, "") = str
  ELSE <<str>>
RECURSIVE LStrip(_)
LStrip(c) == IF c # <<>> /\ Head(c) = " " THEN LStrip(Tail(c)) ELSE c
RECURSIVE RStrip(_)
RStrip(c) ==
  IF c # <<>> /\ c[Len(c)] = " " THEN RStrip(SubSeq(c, 1, Len(c) - 1)) ELSE c
\* str.strip()
strip(str) == JoinStr(RStrip(LStrip(PiecesOf(str))), "")

\* line 191 without the strip: only the empty string has no value
HasNoValueUnstripped(v) == Falsy(v)
\* line 191: not v or (isinstance(v, str) and not (v.strip()))
HasNoValue(v) == Falsy(v) \/ (v[1] = "str" /\ strip(v[2]) = "")
\* line 193: v in ("REQUIRED", "PLACEHOLDER")
IsPlaceholder(v) == v \in {StrV("REQUIRED"), StrV("PLACEHOLDER")}

RECURSIVE check_required_fields(_, _)
\* _check_required_fields, lines 187-195
check_required_fields(d, required) ==
  IF required = <<>> THEN <<>>
  ELSE LET f == Head(required)
           v == Get(d, f, NoneV)
       IN (IF HasNoValue(v)
           THEN <<"Required field " \o PyRepr(StrV(f)) \o " has no value">>
           ELSE <<>>)
          \o (IF IsPlaceholder(v)
              THEN <<"Required field " \o PyRepr(StrV(f)) \o " has value "
                       \o PyRepr(v)>>
              ELSE <<>>)
          \o check_required_fields(d, Tail(required))

\* ---------------------------------------------------- validate: the files
dandiset_metadata_file == "dandiset.yaml"
VIDEO_FILE_EXTENSIONS == {".mp4"}
ValPaths == {"dandiset.yaml", "a.nwb", "v.mp4"}
\* os.path.splitext(filepath)[-1]
splitext(p) ==
  CASE p = "dandiset.yaml" -> ".yaml" [] p = "a.nwb" -> ".nwb" [] p = "v.mp4" -> ".mp4"
\* dandischema.models.get_schema_version()
current_version == "0.6.0"
SchemaArgs == {None, "0.6.0", "0.5.0"}

GoodMeta ==
  [identifier |-> StrV("000001"), name |-> StrV("a"), description |-> StrV("a")]
\* What a descriptor file may hold: kind says whether open() and yaml_load
\* succeed, meta is the parsed mapping, model is what Dandiset(**meta) does
Desc(kind, meta, model) == [kind |-> kind, meta |-> meta, model |-> model]
DescContents ==
  { Desc("unreadable", EmptyDict, "ok"),
    Desc("malformed", EmptyDict, "ok"),
    Desc("parsed", GoodMeta, "ValidationError"),
    Desc("parsed", Restrict(GoodMeta, {"identifier", "description"}), "ValidationError"),
    Desc("parsed", Put(GoodMeta, "name", StrV("REQUIRED")), "ValidationError"),
    Desc("parsed", Put(GoodMeta, "schemaVersion", StrV("0.6.0")), "ok"),
    Desc("parsed", Put(GoodMeta, "schemaVersion", StrV("0.6.0")), "ValidationError"),
    Desc("parsed", Put(GoodMeta, "schemaVersion", StrV("0.6.0")), "TypeError"),
    Desc("parsed", Put(GoodMeta, "schemaVersion", StrV("0.5.0")), "ok") }
\* What a generic asset may hold: what pynwb validation, get_metadata and
\* get_asset_metadata/BareAsset do with it
Asset(pynwb, metaexc, meta, model) ==
  [pynwb |-> pynwb, metaexc |-> metaexc, meta |-> meta, model |-> model]
AssetContents ==
  { Asset("ok", FALSE, [subject_id |-> StrV("a")], "ok"),
    Asset("raises", TRUE, EmptyDict, "OSError"),
    Asset("problems", FALSE, EmptyDict, "ValidationError") }
\* What a video file may hold: whether cv2.VideoCapture opens it ("yes",
\* "no", "raises") and whether a frame can be read
Movie(opens, frame) == [opens |-> opens, frame |-> frame]
MovieContents ==
  { Movie("yes", TRUE), Movie("yes", FALSE), Movie("no", FALSE),
    Movie("raises", FALSE) }
ContentsOf(p) ==
  CASE p = "dandiset.yaml" -> DescContents
    [] p = "a.nwb" -> AssetContents
    [] p = "v.mp4" -> MovieContents

\* ------------------------------------------------- validate: the validators
Raise(kind) == [exc |-> kind, errors |-> <<>>]
Return(errs) == [exc |-> None, errors |-> errs]

\* validate_dandiset_yaml, lines 90-126
validate_dandiset_yaml_body(c, schema_version, devel_debug) ==
  IF c.kind = "unreadable" THEN Raise("OSError")
  ELSE IF c.kind = "malformed" THEN Raise("YAMLError")
  ELSE
    LET sv == IF schema_version = None
              THEN Get(c.meta, "schemaVersion", StrV(None))[2]
              ELSE schema_version
    IN IF sv = None
       THEN Return(check_required_fields(c.meta, required_dandiset_metadata_fields))
       ELSE IF sv # current_version THEN Raise("ValueError")
       ELSE IF c.model = "ok" THEN Return(<<>>)
       ELSE IF devel_debug THEN Raise(c.model)
       ELSE IF c.model = "ValidationError" THEN Return(<<"ValidationError">>)
       ELSE Return(<<"Failed to initialize Dandiset meta: " \o c.model>>)

\* validate_asset_file, lines 130-184
validate_asset_file_body(c, schema_version, devel_debug) ==
  IF schema_version # None
  THEN IF schema_version # current_version THEN Raise("ValueError")
       ELSE IF c.model = "ok" THEN Return(<<>>)
       ELSE IF devel_debug THEN Raise(c.model)
       ELSE IF c.model = "ValidationError" THEN Return(<<"ValidationError">>)
       ELSE Return(<<"Failed to read metadata: " \o c.model>>)
  ELSE IF c.metaexc
       THEN IF devel_debug THEN Raise("OSError")
            ELSE Return(<<"Failed to read metadata: OSError">>)
       ELSE Return(check_required_fields(c.meta, required_nwb_metadata_fields))

\* pynwb_utils.validate
pynwb_validate(c, devel_debug) ==
  IF c.pynwb = "ok" THEN Return(<<>>)
  ELSE IF c.pynwb = "problems" THEN Return(<<"pynwb problem">>)
  ELSE IF devel_debug THEN Raise("OSError")
  ELSE Return(<<"Failed to validate: OSError">>)

\* validate_movie_file, lines 53-85; cv2ok says that opencv can be imported
validate_movie_file(p, c, devel_debug, cv2ok) ==
  IF ~cv2ok THEN Raise("Exception")
  ELSE IF splitext(p) \notin VIDEO_FILE_EXTENSIONS /\ devel_debug
  THEN Raise("Exception")
  ELSE IF c.opens = "raises"
  THEN IF devel_debug THEN Raise("cv2.error") ELSE Return(<<"cv2.error">>)
  ELSE IF c.opens = "no"
  THEN IF devel_debug THEN Raise("Exception")
       ELSE Return(<<"could not open video file " \o p \o " to validate">>)
  ELSE IF c.frame THEN Return(<<>>)
  ELSE Return(<<"no frames in video file " \o p>>)

\* ------------------------------------------------- validate: memoization
\* a cache entry is used whatever the file's modification time
memoize_hit(cache, key, mtime) == key \in DOMAIN cache
\* validate_cache.memoize_path: a cache entry is used while the file's
\* modification time is the one it was computed for
memoize_path_hit(cache, key, mtime) ==
  key \in DOMAIN cache /\ cache[key].mtime = mtime
\* lines 88 and 129: the validators are decorated with memoize_path
MemoizedHit(cache, key, mtime) == memoize_path_hit(cache, key, mtime)

\* a call of a memoized validator: the result, the cache after the call and
\* whether the body ran; a raised exception is not cached
Memoized(cache, key, mtime, body) ==
  IF MemoizedHit(cache, key, mtime)
  THEN [res |-> cache[key].res, cache |-> cache, ran |-> 0]
  ELSE [res |-> body,
        cache |-> IF body.exc = None
                  THEN Put(cache, key, [mtime |-> mtime, res |-> body])
                  ELSE cache,
        ran |-> 1]

\* ------------------------------------------------------------ ls: state
VARIABLES
  flat,             \* flattening: a metadata record and what it flattens to
  req,              \* _check_required_fields: its arguments and its result
  files,            \* per path, what the file held at each modification time
  cv2,              \* whether opencv can be imported
  vcache,           \* validate_cache: call -> [mtime, res]
  vcalls,           \* how often the body of each memoized validator ran
  ncalls,           \* calls of validation entry points made so far
  vlast,            \* the last call of an entry point and its outcome
  vgen,             \* the generator validate() returned
  fields,           \* --fields after lines 115-128 and 162-165
  format,           \* --format after line 160
  schema,           \* --schema
  use_fake_digest,  \* --use-fake-digest
  jobs,             \* --jobs, the size of the sink's worker pool
  pc,               \* position of the control thread in ls
  assets,           \* the assets the enumerator has yielded so far
  excs,             \* per asset, the kinds of the exceptions caught for it
  rec,              \* the record of the asset being resolved eagerly
  out_state,        \* the sink: "new", "open" (inside `with out`), "closed"
  sink,             \* the records handed to out(), in call order
  errors,           \* the ledger: exception kind -> list of assets
  cbs,              \* per asset, the callable get_metadata_ls returned
  calls,            \* how often each collaborator was called
  raised            \* the exception that left ls ("None" if none)

cfgvars == <<fields, format, schema, use_fake_digest, jobs>>
lsvars == <<cfgvars, pc, assets, excs, rec, out_state, sink, errors, cbs, calls, raised>>
vvars == <<req, files, cv2, vcache, vcalls, ncalls, vlast, vgen>>
vars == <<lsvars, vvars, flat>>

n == Len(assets)

async_keys == AsyncKeys(schema, fields)
\* a collaborator that was not called
NotCalled == [exc |-> "skip"]
NoCb == [st |-> "none", path |-> "", rec |-> EmptyDict, kind |-> None,
         o_try |-> NotCalled, o_nwb |-> NotCalled]
\* a callable whose path is whatever asset the loop has reached when it runs
cb_path_late(i) == assets[Len(assets)].path
\* lines 195-196 and 330-340: fn closes over the path get_metadata_ls was
\* called with
cb_path(i) == cbs[i].path
\* positions of a callable between its lines: "try_exc" and "fin_exc" are
\* inside _add_exc_error, after the lookup errors[kind] and before .append
Recording == {"try_exc", "fin_exc"}
Running == {i \in DOMAIN cbs : cbs[i].st \in {"started", "mid"} \cup Recording}
Unfinished == {i \in DOMAIN cbs : cbs[i].st \in {"pending", "started", "mid"} \cup Recording}

FieldChoices(sch) ==
  {NoFields} \cup {SomeFields(S) : S \in (SUBSET all_fields(sch)) \ {{}}}

NoReq == [d |-> EmptyDict, required |-> <<>>, out |-> <<>>, applied |-> FALSE]
NoCall == [entry |-> "none", path |-> "", schema_version |-> None,
           devel_debug |-> FALSE, mtime |-> 0, prior |-> 0, ran |-> 0,
           res |-> Return(<<>>)]
NoGen == [st |-> "idle", paths |-> <<>>, schema_version |-> None,
          devel_debug |-> FALSE, pairs |-> <<>>, exc |-> None]
ReqIdle == req = NoReq
NoFlat == [meta |-> EmptyDict, out |-> EmptyDict, fn_out |-> EmptyDict,
           applied |-> FALSE]
FlatIdle == flat = NoFlat
CallsIdle ==
  /\ vcache = EmptyDict
  /\ vcalls = [validate_dandiset_yaml |-> 0, validate_asset_file |-> 0]
  /\ ncalls = 0
  /\ vlast = NoCall
  /\ vgen = NoGen
ValidateIdle ==
  /\ req = NoReq
  /\ files = EmptyDict
  /\ cv2 = TRUE
  /\ vcache = EmptyDict
  /\ vcalls = [validate_dandiset_yaml |-> 0, validate_asset_file |-> 0]
  /\ ncalls = 0
  /\ vlast = NoCall
  /\ vgen = NoGen

Init ==
  /\ ValidateIdle /\ FlatIdle
  /\ schema \in {None, "0.6.0"}
  /\ format \in Formats
  /\ fields \in {PyoutFields(format, f) : f \in FieldChoices(schema)}
  /\ use_fake_digest \in BOOLEAN
  \* line 166: --jobs reaches the pyout sink only; a pool of one worker and
  \* the largest pool
  /\ jobs \in IF format = "pyout" THEN {1, MaxJobs} ELSE {1}
  /\ pc = "init"
  /\ assets = <<>>
  /\ excs = <<>>
  /\ rec = EmptyDict
  /\ out_state = "new"
  /\ sink = <<>>
  /\ errors = EmptyDict
  /\ cbs = <<>>
  /\ calls = [cb |-> 0, digest |-> 0, extract |-> 0, nwb_version |-> 0]
  /\ raised = None

\* lines 187-192: the record after the cheap pass, and whether os.stat raised
CheapPass(p, flds) ==
  LET rec0 == [path |-> StrV(p)]
      stats == (flds = NoFields \/ "size" \in flds[1]) /\ ~isdir(p)
  IN IF stats /\ ~exists(p)
     THEN [rec |-> rec0, exc |-> "FileNotFoundError"]
     ELSE [rec |-> IF stats THEN Put(rec0, "size", IntV(st_size(p))) ELSE rec0,
           exc |-> None]

\* a sink that is handed the empty records too
DeliveredAlways(snk, r, i) == Append(snk, [idx |-> i, rec |-> r])

\* lines 232-236: an empty record goes to the ledger and is skipped, any
\* other record is handed to out()
Delivered(snk, r, i) ==
  IF r = EmptyDict THEN snk ELSE Append(snk, [idx |-> i, rec |-> r])
Ledgered(errs, r, a) ==
  IF r = EmptyDict THEN add_exc_error_errors(errs, "Empty record", a) ELSE errs

\* every sink is treated as taking callables
DeferredAlways(fmt) == TRUE

\* line 203: only the pyout sink takes records whose fields are callables
Deferred(fmt) == fmt = "pyout"

\* line 184: `with out:`
Enter ==
  /\ pc = "init"
  /\ pc' = "loop"
  /\ out_state' = "open"
  /\ UNCHANGED <<cfgvars, assets, excs, rec, sink, errors, cbs, calls, raised>>

\* lines 185-236 for a local path, up to the call of the callable
BeginPath(p) ==
  LET i == n + 1
      cheap == CheapPass(p, fields)
  IN
  /\ pc = "loop" /\ n < MaxAssets
  /\ assets' = Append(assets, PathAsset(p))
  /\ excs' = Append(excs, IF cheap.exc # None THEN <<cheap.exc>> ELSE <<>>)
  /\ UNCHANGED <<cfgvars, out_state, raised>>
  /\ IF cheap.exc # None
     THEN \* line 217
          LET r == add_exc_error_rec(cheap.rec)
              e == add_exc_error_errors(errors, cheap.exc, p)
          IN /\ sink' = Delivered(sink, r, i)
             /\ errors' = Ledgered(e, r, p)
             /\ cbs' = Append(cbs, NoCb)
             /\ UNCHANGED <<pc, rec, calls>>
     ELSE IF async_keys = {}
     THEN /\ sink' = Delivered(sink, cheap.rec, i)
          /\ errors' = Ledgered(errors, cheap.rec, p)
          /\ cbs' = Append(cbs, NoCb)
          /\ UNCHANGED <<pc, rec, calls>>
     ELSE IF Deferred(format)
     THEN \* line 204: the callable travels in the record
          LET r == Put(cheap.rec, "async_keys", CbV(i))
          IN /\ sink' = Delivered(sink, r, i)
             /\ errors' = Ledgered(errors, r, p)
             /\ cbs' = Append(cbs, [NoCb EXCEPT !.st = "pending", !.path = p])
             /\ calls' = [calls EXCEPT !.cb = @ + 1]
             /\ UNCHANGED <<pc, rec>>
     ELSE \* line 208: cb() is called here
          /\ pc' = "resolve"
          /\ rec' = cheap.rec
          /\ cbs' = Append(cbs, [NoCb EXCEPT !.st = "started", !.path = p])
          /\ calls' = [calls EXCEPT !.cb = @ + 1]
          /\ UNCHANGED <<sink, errors>>

\* a raise that leaves ls without passing the end of the with block
RaiseSkipsExit == "done"
\* lines 184 and 221: a raise inside `with out:` leaves through the end of
\* the with block
RaiseExit == "exiting"

\* lines 218-236 for a ready record
BeginDict(d) ==
  /\ pc = "loop" /\ n < MaxAssets
  /\ assets' = Append(assets, DictAsset(d))
  /\ excs' = Append(excs, <<>>)
  /\ cbs' = Append(cbs, NoCb)
  /\ UNCHANGED <<cfgvars, rec, out_state, calls>>
  /\ IF schema # None /\ Get(d, "schemaVersion", StrV(None)) # StrV(schema)
     THEN /\ raised' = "NotImplementedError"
          /\ pc' = RaiseExit
          /\ UNCHANGED <<sink, errors>>
     ELSE /\ sink' = Delivered(sink, d, n + 1)
          /\ errors' = Ledgered(errors, d, d)
          /\ UNCHANGED <<pc, raised>>

\* the sink's pool starts a deferred callable: a free worker takes the
\* callable that has waited longest
WorkerStart(i) ==
  /\ i \in DOMAIN cbs /\ cbs[i].st = "pending"
  /\ \A j \in 1..(i - 1) : cbs[j].st # "pending"
  /\ Cardinality(Running) < jobs
  /\ cbs' = [cbs EXCEPT ![i].st = "started"]
  /\ UNCHANGED <<cfgvars, pc, assets, excs, rec, out_state, sink, errors, calls, raised>>

\* fn, lines 341-380
FnTry(i) ==
  /\ i \in DOMAIN cbs /\ cbs[i].st = "started"
  /\ UNCHANGED <<cfgvars, pc, assets, rec, out_state, sink, raised>>
  /\ IF SkipsExtraction(async_keys)
     THEN /\ cbs' = [cbs EXCEPT ![i].st = "mid"]
          /\ UNCHANGED <<errors, calls, excs>>
     ELSE \E o \in TryOutcomes(cb_path(i), schema, use_fake_digest) :
          /\ cbs' = [cbs EXCEPT ![i].st = IF o.exc # None THEN "try_exc" ELSE "mid",
                                 ![i].kind = o.exc, ![i].o_try = o,
                                 ![i].rec = fn_try_rec(async_keys, format = "pyout", o)]
          /\ errors' = IF o.exc # None
                        THEN defaultdict_getitem(errors, o.exc)
                        ELSE errors
          /\ excs' = [excs EXCEPT ![i] = IF o.exc # None THEN Append(@, o.exc) ELSE @]
          /\ calls' = [calls EXCEPT !.digest = @ + o.digest,
                                     !.extract = @ + o.extract]

\* fn returns cb_res (line 392) with the ledger at e; for an eager sink the
\* control thread then runs lines 212-215 and 232-236
FnReturn(i, cb_res, e, o) ==
  /\ cbs' = [cbs EXCEPT ![i].st = "done", ![i].kind = None, ![i].rec = cb_res,
                         ![i].o_nwb = o]
  /\ IF pc = "resolve"
     THEN LET r == Update(rec, cb_res)
          IN /\ sink' = Delivered(sink, r, i)
             /\ errors' = Ledgered(e, r, cb_path(i))
             /\ rec' = EmptyDict
             /\ pc' = "loop"
     ELSE /\ errors' = e
          /\ UNCHANGED <<sink, rec, pc>>

\* fn, lines 381-392, up to the lookup errors[kind] of _add_exc_error when
\* get_nwb_version raised
FnFinish(i) ==
  /\ i \in DOMAIN cbs /\ cbs[i].st = "mid"
  /\ UNCHANGED <<cfgvars, assets, out_state, raised>>
  /\ \E o \in IF NeedsNwbVersion(cb_path(i), cbs[i].rec, async_keys)
               THEN NwbVersionOutcomes(cb_path(i))
               ELSE {[exc |-> "skip", v |-> StrV("")]} :
       LET called == o.exc # "skip"
           cb_res == IF called THEN fn_fallback_rec(cbs[i].rec, o) ELSE cbs[i].rec
       IN /\ calls' = [calls EXCEPT !.nwb_version = @ + (IF called THEN 1 ELSE 0)]
          /\ IF called /\ o.exc # None
             THEN /\ cbs' = [cbs EXCEPT ![i].st = "fin_exc", ![i].kind = o.exc,
                                        ![i].o_nwb = o, ![i].rec = cb_res]
                  /\ errors' = defaultdict_getitem(errors, o.exc)
                  /\ excs' = [excs EXCEPT ![i] = Append(@, o.exc)]
                  /\ UNCHANGED <<sink, rec, pc>>
             ELSE /\ FnReturn(i, cb_res, errors, IF called THEN o ELSE NotCalled)
                  /\ UNCHANGED excs

\* _add_exc_error, line 247: the .append(asset) on the list the lookup handed
\* out, then the rest of fn
AddExcError(i) ==
  /\ i \in DOMAIN cbs /\ cbs[i].st \in Recording
  /\ UNCHANGED <<cfgvars, assets, excs, out_state, calls, raised>>
  /\ LET e == add_exc_error_errors(errors, cbs[i].kind, cb_path(i))
     IN IF cbs[i].st = "try_exc"
        THEN /\ cbs' = [cbs EXCEPT ![i].st = "mid", ![i].kind = None]
             /\ errors' = e
             /\ UNCHANGED <<sink, rec, pc>>
        ELSE FnReturn(i, cbs[i].rec, e, cbs[i].o_nwb)

\* the enumerator is exhausted: the loop ends
EndLoop ==
  /\ pc = "loop"
  /\ pc' = "exiting"
  /\ UNCHANGED <<cfgvars, assets, excs, rec, out_state, sink, errors, cbs, calls, raised>>

\* the end of `with out:`: the sink waits for its pool and is finalized
Exit ==
  /\ pc = "exiting"
  /\ Unfinished = {}
  /\ out_state' = "closed"
  /\ pc' = "done"
  /\ UNCHANGED <<cfgvars, assets, excs, rec, sink, errors, cbs, calls, raised>>

Next ==
  \/ Enter /\ UNCHANGED <<flat, vvars>>
  \/ \E p \in Paths : BeginPath(p) /\ UNCHANGED <<flat, vvars>>
  \/ \E d \in ReadyRecords : BeginDict(d) /\ UNCHANGED <<flat, vvars>>
  \/ \E i \in 1..MaxAssets : WorkerStart(i) /\ UNCHANGED <<flat, vvars>>
  \/ \E i \in 1..MaxAssets : FnTry(i) /\ UNCHANGED <<flat, vvars>>
  \/ \E i \in 1..MaxAssets : FnFinish(i) /\ UNCHANGED <<flat, vvars>>
  \/ \E i \in 1..MaxAssets : AddExcError(i) /\ UNCHANGED <<flat, vvars>>
  \/ EndLoop /\ UNCHANGED <<flat, vvars>>
  \/ Exit /\ UNCHANGED <<flat, vvars>>

Spec == Init /\ [][Next]_vars

\* ============================================ _check_required_fields
\* the ls variables while validation is modelled
LsIdle ==
  /\ fields = NoFields /\ format = "yaml" /\ schema = None
  /\ use_fake_digest = FALSE /\ jobs = 1
  /\ pc = "done" /\ assets = <<>> /\ excs = <<>> /\ rec = EmptyDict
  /\ out_state = "new" /\ sink = <<>> /\ errors = EmptyDict /\ cbs = <<>>
  /\ calls = [cb |-> 0, digest |-> 0, extract |-> 0, nwb_version |-> 0]
  /\ raised = None

ReqFieldNames == {"name", "subject_id"}
\* the values a metadata field may hold
ReqValues ==
  {StrV(JoinStr(c, "")) : c \in PieceSeqs}
    \cup {NoneV, IntV(0), IntV(5), ListV(<<>>), ListV(<<StrV("a")>>)}
ReqDicts == UNION {[S -> ReqValues] : S \in SUBSET ReqFieldNames}
ReqLists == UNION {[1..k -> ReqFieldNames] : k \in 0..MaxRequired}

InitR ==
  /\ LsIdle /\ FlatIdle
  /\ files = EmptyDict /\ cv2 = TRUE /\ CallsIdle
  /\ \E d \in ReqDicts, required \in ReqLists :
       req = [d |-> d, required |-> required, out |-> <<>>, applied |-> FALSE]

CheckRequired ==
  /\ ~req.applied
  /\ req' = [req EXCEPT !.out = check_required_fields(req.d, req.required),
                         !.applied = TRUE]
  /\ UNCHANGED <<flat, lsvars, files, cv2, vcache, vcalls, ncalls, vlast, vgen>>

NextR == CheckRequired
SpecR == InitR /\ [][NextR]_vars

NoValueMsg(f) == "Required field '" \o f \o "' has no value"
ValueMsg(f, str) == "Required field '" \o f \o "' has value '" \o str \o "'"
ReqValue(i) == Get(req.d, req.required[i], NoneV)
RECURSIVE Flat(_)
\* the concatenation of a sequence of sequences
Flat(ss) == IF ss = <<>> THEN <<>> ELSE Head(ss) \o Flat(Tail(ss))

\* C6 as claimed: one problem string for each required field whose value is
\* missing (no key, or None), an empty or whitespace-only string, or a
\* placeholder token, and none for any other required field.
C6_StringsAndPlaceholders ==
  req.applied =>
    req.out = Flat([i \in DOMAIN req.required |->
      LET f == req.required[i]
          v == ReqValue(i)
      IN IF f \notin DOMAIN req.d \/ v = NoneV THEN <<NoValueMsg(f)>>
         ELSE IF v[1] = "str" /\ v[2] \in {"", " ", "  ", "   "}
         THEN <<NoValueMsg(f)>>
         ELSE IF v \in {StrV("REQUIRED"), StrV("PLACEHOLDER")}
         THEN <<ValueMsg(f, v[2])>>
         ELSE <<>>])

\* C6 amended: one problem string for each required field whose value is
\* missing, falsy (None, 0, an empty collection, the empty string), a
\* whitespace-only string, or a placeholder token, and none for any other
\* required field; the placeholder wording names the field and its value,
\* the other wording names the field as having no value.
C6_FalsyAndPlaceholders ==
  req.applied =>
    req.out = Flat([i \in DOMAIN req.required |->
      LET f == req.required[i]
          v == ReqValue(i)
      IN IF f \notin DOMAIN req.d THEN <<NoValueMsg(f)>>
         ELSE IF v \in {NoneV, IntV(0), ListV(<<>>)} THEN <<NoValueMsg(f)>>
         ELSE IF v[1] = "str" /\ v[2] \in {"", " ", "  ", "   "}
         THEN <<NoValueMsg(f)>>
         ELSE IF v \in {StrV("REQUIRED"), StrV("PLACEHOLDER")}
         THEN <<ValueMsg(f, v[2])>>
         ELSE <<>>])

C6_Witness ==
  /\ req.applied
  /\ req.required = <<"name", "subject_id">>
  /\ req.d = [name |-> StrV("REQUIRED"), subject_id |-> StrV(" ")]
  /\ req.out = <<"Required field 'name' has value 'REQUIRED'",
                 "Required field 'subject_id' has no value">>

\* ======================================================= validate: calls
MaxFiles == 2       \* files one run of validate() discovers
MaxCalls == 3       \* calls of the memoized validators in one run
MaxMtime == 2       \* modification times a file goes through

mtime(p) == Len(files[p])
content(p) == files[p][Len(files[p])]
MemoKey(fname, p, schema_version, devel_debug) ==
  <<fname, p, schema_version, devel_debug>>
NoneRan == [validate_dandiset_yaml |-> 0, validate_asset_file |-> 0]

\* the memoized validate_dandiset_yaml, lines 88-89
validate_dandiset_yaml(cache, p, schema_version, devel_debug) ==
  Memoized(cache, MemoKey("validate_dandiset_yaml", p, schema_version, devel_debug),
           mtime(p),
           validate_dandiset_yaml_body(content(p), schema_version, devel_debug))

\* the memoized validate_asset_file, lines 129-130
validate_asset_file(cache, p, schema_version, devel_debug) ==
  Memoized(cache, MemoKey("validate_asset_file", p, schema_version, devel_debug),
           mtime(p),
           validate_asset_file_body(content(p), schema_version, devel_debug))

\* validate_file, lines 40-50: the result, the cache after the call and the
\* memoized bodies that ran
validate_file(cache, p, schema_version, devel_debug) ==
  IF p = dandiset_metadata_file
  THEN LET m == validate_dandiset_yaml(cache, p, None, devel_debug)
       IN [res |-> m.res, cache |-> m.cache,
           ran |-> [NoneRan EXCEPT !.validate_dandiset_yaml = m.ran]]
  ELSE IF splitext(p) \in VIDEO_FILE_EXTENSIONS
  THEN [res |-> validate_movie_file(p, content(p), devel_debug, cv2),
        cache |-> cache, ran |-> NoneRan]
  ELSE LET pn == pynwb_validate(content(p), devel_debug)
           m == validate_asset_file(cache, p, schema_version, devel_debug)
       IN IF pn.exc # None
          THEN [res |-> pn, cache |-> cache, ran |-> NoneRan]
          ELSE [res |-> IF m.res.exc # None THEN m.res
                        ELSE Return(pn.errors \o m.res.errors),
                cache |-> m.cache,
                ran |-> [NoneRan EXCEPT !.validate_asset_file = m.ran]]

PriorMtime(key) == IF key \in DOMAIN vcache THEN vcache[key].mtime ELSE 0

\* a direct call of validate_dandiset_yaml
CallDandisetYaml(p, schema_version, devel_debug) ==
  LET m == validate_dandiset_yaml(vcache, p, schema_version, devel_debug)
      key == MemoKey("validate_dandiset_yaml", p, schema_version, devel_debug)
  IN /\ vlast' = [entry |-> "validate_dandiset_yaml", path |-> p,
                  schema_version |-> schema_version, devel_debug |-> devel_debug,
                  mtime |-> mtime(p), prior |-> PriorMtime(key),
                  ran |-> m.ran, res |-> m.res]
     /\ vcache' = m.cache
     /\ vcalls' = [vcalls EXCEPT !.validate_dandiset_yaml = @ + m.ran]
     /\ ncalls' = ncalls + 1
     /\ UNCHANGED <<flat, lsvars, req, files, cv2, vgen>>

\* a direct call of validate_asset_file
CallAssetFile(p, schema_version, devel_debug) ==
  LET m == validate_asset_file(vcache, p, schema_version, devel_debug)
      key == MemoKey("validate_asset_file", p, schema_version, devel_debug)
  IN /\ vlast' = [entry |-> "validate_asset_file", path |-> p,
                  schema_version |-> schema_version, devel_debug |-> devel_debug,
                  mtime |-> mtime(p), prior |-> PriorMtime(key),
                  ran |-> m.ran, res |-> m.res]
     /\ vcache' = m.cache
     /\ vcalls' = [vcalls EXCEPT !.validate_asset_file = @ + m.ran]
     /\ ncalls' = ncalls + 1
     /\ UNCHANGED <<flat, lsvars, req, files, cv2, vgen>>

\* a direct call of validate_movie_file
CallMovieFile(p, devel_debug) ==
  /\ vlast' = [entry |-> "validate_movie_file", path |-> p,
               schema_version |-> None, devel_debug |-> devel_debug,
               mtime |-> mtime(p), prior |-> 0, ran |-> 0,
               res |-> validate_movie_file(p, content(p), devel_debug, cv2)]
  /\ ncalls' = ncalls + 1
  /\ UNCHANGED <<flat, lsvars, req, files, cv2, vcache, vcalls, vgen>>

\* a direct call of validate_file
CallValidateFile(p, schema_version, devel_debug) ==
  LET r == validate_file(vcache, p, schema_version, devel_debug)
  IN /\ vlast' = [entry |-> "validate_file", path |-> p,
                  schema_version |-> schema_version, devel_debug |-> devel_debug,
                  mtime |-> mtime(p), prior |-> 0,
                  ran |-> r.ran.validate_dandiset_yaml + r.ran.validate_asset_file,
                  res |-> r.res]
     /\ vcache' = r.cache
     /\ vcalls' = [k \in DOMAIN vcalls |-> vcalls[k] + r.ran[k]]
     /\ ncalls' = ncalls + 1
     /\ UNCHANGED <<flat, lsvars, req, files, cv2, vgen>>

\* validate(paths, ...), lines 19-32: the generator is created
StartValidate(paths, schema_version, devel_debug) ==
  /\ vgen.st = "idle"
  /\ vgen' = [st |-> "running", paths |-> paths, schema_version |-> schema_version,
              devel_debug |-> devel_debug, pairs |-> <<>>, exc |-> None]
  /\ ncalls' = ncalls + 1
  /\ UNCHANGED <<flat, lsvars, req, files, cv2, vcache, vcalls, vlast>>

\* validate, lines 33-37: the caller asks for the next pair
NextPair ==
  /\ vgen.st = "running"
  /\ Len(vgen.pairs) < Len(vgen.paths)
  /\ LET p == vgen.paths[Len(vgen.pairs) + 1]
         r == validate_file(vcache, p, vgen.schema_version, vgen.devel_debug)
     IN /\ vgen' = IF r.res.exc # None
                    THEN [vgen EXCEPT !.st = "raised", !.exc = r.res.exc]
                    ELSE [vgen EXCEPT !.pairs =
                            Append(@, [path |-> p, errors |-> r.res.errors])]
        /\ vcache' = r.cache
        /\ vcalls' = [k \in DOMAIN vcalls |-> vcalls[k] + r.ran[k]]
  /\ UNCHANGED <<flat, lsvars, req, files, cv2, ncalls, vlast>>

\* validate: the files are exhausted, the generator ends
GenEnd ==
  /\ vgen.st = "running"
  /\ Len(vgen.pairs) = Len(vgen.paths)
  /\ vgen' = [vgen EXCEPT !.st = "done"]
  /\ UNCHANGED <<flat, lsvars, req, files, cv2, vcache, vcalls, ncalls, vlast>>

\* the file is edited: new content, new modification time
Touch(p, c) ==
  /\ p \in DOMAIN files
  /\ mtime(p) < MaxMtime
  /\ files' = [files EXCEPT ![p] = Append(@, c)]
  /\ UNCHANGED <<flat, lsvars, req, cv2, vcache, vcalls, ncalls, vlast, vgen>>

\* the lists of files validate() may discover
PathSeqs ==
  {ps \in UNION {[1..k -> ValPaths] : k \in 1..MaxFiles} :
     \A i, j \in DOMAIN ps : i # j => ps[i] # ps[j]}

\* ---- one call of an entry point on any files
InitV ==
  /\ LsIdle /\ ReqIdle /\ CallsIdle /\ FlatIdle
  /\ cv2 \in BOOLEAN
  /\ \E d \in DescContents, a \in AssetContents, m \in MovieContents :
       files = [p \in ValPaths |->
                 IF p = "dandiset.yaml" THEN <<d>>
                 ELSE IF p = "a.nwb" THEN <<a>> ELSE <<m>>]

NextV ==
  \/ \E sv \in SchemaArgs, dd \in BOOLEAN :
       ncalls = 0 /\ CallDandisetYaml("dandiset.yaml", sv, dd)
  \/ \E sv \in SchemaArgs, dd \in BOOLEAN :
       ncalls = 0 /\ CallAssetFile("a.nwb", sv, dd)
  \/ \E dd \in BOOLEAN : ncalls = 0 /\ CallMovieFile("v.mp4", dd)
  \/ \E p \in ValPaths, sv \in SchemaArgs, dd \in BOOLEAN :
       ncalls = 0 /\ CallValidateFile(p, sv, dd)
  \/ \E ps \in PathSeqs, sv \in SchemaArgs, dd \in BOOLEAN :
       ncalls = 0 /\ StartValidate(ps, sv, dd)
  \/ NextPair
  \/ GenEnd

SpecV == InitV /\ [][NextV]_vars

\* ---- repeated calls of the memoized validators between edits of the files
\* what the file under test holds between its edits: a file that validates,
\* one with a problem, one that cannot be read
EditedContents(p) ==
  IF p = "dandiset.yaml"
  THEN { Desc("parsed", GoodMeta, "ValidationError"),
         Desc("parsed", Restrict(GoodMeta, {"identifier", "description"}),
              "ValidationError"),
         Desc("unreadable", EmptyDict, "ok") }
  ELSE AssetContents

InitC ==
  /\ LsIdle /\ ReqIdle /\ CallsIdle /\ FlatIdle
  /\ cv2 = TRUE
  /\ \E p \in {"dandiset.yaml", "a.nwb"} : \E c \in EditedContents(p) :
       files = [q \in {p} |-> <<c>>]

NextC ==
  \/ \E sv \in SchemaArgs, dd \in BOOLEAN :
       /\ ncalls < MaxCalls /\ "dandiset.yaml" \in DOMAIN files
       /\ CallDandisetYaml("dandiset.yaml", sv, dd)
  \/ \E sv \in SchemaArgs, dd \in BOOLEAN :
       /\ ncalls < MaxCalls /\ "a.nwb" \in DOMAIN files
       /\ CallAssetFile("a.nwb", sv, dd)
  \/ \E p \in {"dandiset.yaml", "a.nwb"} : \E c \in EditedContents(p) :
       Touch(p, c)

SpecC == InitC /\ [][NextC]_vars

\* ------------------------------------------------------ validate: claims
VersionedRoles == {"dandiset.yaml", "a.nwb"}
Mismatch(sv) == sv # None /\ sv # current_version

\* C4 as claimed: a call of validate_file, validate_dandiset_yaml or
\* validate_asset_file on a descriptor or a generic asset with a requested
\* schema version other than the supported one raises, and validate() yields
\* no pair for such a file.
C4_MismatchAlwaysRaises ==
  /\ (/\ vlast.entry \in {"validate_file", "validate_dandiset_yaml",
                           "validate_asset_file"}
      /\ vlast.path \in VersionedRoles
      /\ Mismatch(vlast.schema_version)) => vlast.res.exc # None
  /\ Mismatch(vgen.schema_version) =>
       \A i \in DOMAIN vgen.pairs : vgen.pairs[i].path \notin VersionedRoles

\* C7 as claimed: in lenient mode with no schema version requested, a run of
\* validate() that has ended has raised nothing and has yielded one pair per
\* discovered file, in discovery order.
C7_LenientYieldsAll ==
  (vgen.st \in {"done", "raised"} /\ ~vgen.devel_debug
     /\ vgen.schema_version = None) =>
    /\ vgen.exc = None
    /\ [i \in DOMAIN vgen.pairs |-> vgen.pairs[i].path] = vgen.paths

\* the body of the memoized validator `entry`
BodyOf(entry, c, sv, dd) ==
  IF entry = "validate_dandiset_yaml" THEN validate_dandiset_yaml_body(c, sv, dd)
  ELSE validate_asset_file_body(c, sv, dd)

\* C5: a call made while the file's modification time is the cached one
\* runs no validator body and returns the cached result; a call made at
\* another modification time (or with nothing cached) runs the body once and
\* its result replaces the cache entry; every result returned and every
\* cache entry is the result for the content the file had at that time.
C5_CacheFollowsMtime ==
  /\ vlast.entry # "none" =>
       LET key == MemoKey(vlast.entry, vlast.path, vlast.schema_version,
                          vlast.devel_debug)
       IN /\ vlast.res = BodyOf(vlast.entry, files[vlast.path][vlast.mtime],
                                vlast.schema_version, vlast.devel_debug)
          /\ vlast.prior = vlast.mtime => vlast.ran = 0
          /\ vlast.prior # vlast.mtime => vlast.ran = 1
          /\ (vlast.ran = 1 /\ vlast.res.exc = None) =>
               /\ key \in DOMAIN vcache
               /\ vcache[key] = [mtime |-> vlast.mtime, res |-> vlast.res]
  /\ \A key \in DOMAIN vcache :
       vcache[key].res =
         BodyOf(key[1], files[key[2]][vcache[key].mtime], key[3], key[4])
  /\ vcalls.validate_dandiset_yaml + vcalls.validate_asset_file <= ncalls

C5_Witness ==
  /\ vlast.entry = "validate_dandiset_yaml"
  /\ vlast.mtime = 2 /\ vlast.prior = 2 /\ vlast.ran = 0
  /\ ncalls = 3 /\ vcalls.validate_dandiset_yaml = 2
  /\ files[vlast.path][1] # files[vlast.path][2]

\* =================================================================== ls
\* ------------------------------------------------- vocabulary of the claims
OnlyPaths == \A i \in DOMAIN assets : assets[i].type = "str"
Missing(i) == assets[i].type = "str" /\ ~exists(assets[i].path)
ErrorsOf(r) == Get(r, "errors", IntV(0))[2]
\* the fields were not restricted to exclude size: the path is stat'ed
StatsSize == fields = NoFields \/ "size" \in fields[1]
Requested == IF fields = NoFields THEN all_fields(schema) ELSE fields[1]
\* the row the sink shows for its k-th record once the callable is done
Row(k) ==
  LET s == sink[k] IN
  IF "async_keys" \in DOMAIN s.rec /\ cbs[s.idx].st = "done"
  THEN Update(Restrict(s.rec, (DOMAIN s.rec) \ {"async_keys"}), cbs[s.idx].rec)
  ELSE s.rec
\* the paths of the nonexistent assets, in enumeration order
MissingPaths ==
  LET ps == [i \in DOMAIN assets |-> assets[i].path]
      miss(p) == ~exists(p)
  IN SelectSeq(ps, miss)
OneRecordPerAsset ==
  /\ Len(sink) = Len(assets)
  /\ \A i \in DOMAIN sink : sink[i].idx = i

\* C1 as claimed: a finished run over local paths, one of them nonexistent,
\* for any field selection, ended normally, handed the sink one record per
\* asset, and every nonexistent path's record has errors >= 1.
C1_AnySelection ==
  (pc = "done" /\ OnlyPaths /\ \E i \in DOMAIN assets : Missing(i)) =>
    /\ raised = None
    /\ OneRecordPerAsset
    /\ \A i \in DOMAIN sink : Missing(i) => ErrorsOf(Row(i)) >= 1

\* C1 amended: a run over local paths never stops before the end, ends
\* normally with one record per asset handed to the sink, and the record of
\* every nonexistent path has errors >= 1 whenever the field selection is
\* absent or contains size.
C1_StatSelection ==
  OnlyPaths =>
    /\ pc # "done" => ENABLED Next
    /\ raised = None
    /\ pc = "done" =>
         /\ OneRecordPerAsset
         /\ StatsSize =>
              \A i \in DOMAIN sink : Missing(i) => ErrorsOf(sink[i].rec) >= 1

C1_Witness ==
  /\ pc = "done" /\ OnlyPaths /\ StatsSize /\ Len(assets) = 2
  /\ Missing(1) /\ ~Missing(2)
  /\ OneRecordPerAsset
  /\ ErrorsOf(sink[1].rec) = 1

\* C2 as claimed: at the end of a run the errors counter of every record the
\* sink holds equals the number of exceptions caught while resolving that
\* asset (all of which are in the ledger).
C2_CounterInRecord ==
  pc = "done" =>
    \A k \in DOMAIN sink : ErrorsOf(Row(k)) = Len(excs[sink[k].idx])

C8_OrderAndEager ==
  /\ \A j, k \in DOMAIN sink : j < k => sink[j].idx < sink[k].idx
  /\ format # "pyout" =>
       /\ \A k \in DOMAIN sink :
            /\ cbs[sink[k].idx].st \in {"none", "done"}
            /\ "async_keys" \notin DOMAIN sink[k].rec
            /\ \A key \in DOMAIN cbs[sink[k].idx].rec :
                 /\ key \in DOMAIN sink[k].rec
                 /\ sink[k].rec[key] = cbs[sink[k].idx].rec[key]
       /\ pc \in {"loop", "exiting", "done"} => Unfinished = {}

C8_Witness ==
  /\ format # "pyout" /\ Len(sink) = 2 /\ calls.cb = 2
  /\ \A k \in DOMAIN sink : "age" \in DOMAIN sink[k].rec

C10_PathSizeFilter ==
  (fields = SomeFields({"path", "size"}) /\ OnlyPaths) =>
    /\ OneRecordPerAsset
    /\ \A i \in DOMAIN sink :
         LET p == assets[i].path
             r == sink[i].rec
         IN /\ r["path"] = StrV(p)
            /\ (exists(p) /\ ~isdir(p)) =>
                 "size" \in DOMAIN r /\ "errors" \notin DOMAIN r
            /\ ~exists(p) =>
                 "size" \notin DOMAIN r /\ ErrorsOf(r) >= 1
    /\ errors = IF MissingPaths = <<>> THEN EmptyDict
                ELSE [k \in {"FileNotFoundError"} |-> MissingPaths]

C10_Witness ==
  /\ pc = "done" /\ fields = SomeFields({"path", "size"}) /\ jobs = 1
  /\ Len(assets) = 2 /\ OnlyPaths
  /\ assets[1].path = "f.nwb" /\ assets[2].path = "m.nwb"
  /\ sink[1].rec = [path |-> StrV("f.nwb"), size |-> IntV(0)]
  /\ sink[2].rec = [path |-> StrV("m.nwb"), errors |-> IntV(1)]
  /\ errors = [k \in {"FileNotFoundError"} |-> <<"m.nwb">>]

\* ------------------------------------------------------------ the ledger
\* the calls of _add_exc_error made so far for asset path p with kind k
RECURSIVE CountIn(_, _)
CountIn(l, x) ==
  IF l = <<>> THEN 0 ELSE (IF Head(l) = x THEN 1 ELSE 0) + CountIn(Tail(l), x)
RECURSIVE CallsUpTo(_, _, _)
CallsUpTo(i, k, ps) ==
  IF i = 0 THEN 0
  ELSE (IF assets[i].path \in ps THEN CountIn(excs[i], k) ELSE 0)
       + CallsUpTo(i - 1, k, ps)
RecordCalls(k, p) == CallsUpTo(Len(excs), k, {p})
\* those of them that have looked the list up and not yet appended to it
InFlight(k, p) ==
  Cardinality({i \in DOMAIN cbs : /\ cbs[i].st \in Recording
                                  /\ cbs[i].kind = k /\ cbs[i].path = p})
Occurrences(l, p) == CountIn(l, p)
ExcKinds == {"FileNotFoundError", "ValueError", "OSError"}
\* what line 240 prints for a kind: "%s: %d paths" % (k, len(v))
SummaryCount(k) == IF k \in DOMAIN errors THEN Len(errors[k]) ELSE 0

\* the <<kind, path>> pairs that a record call, a ledger entry or a callable
\* inside _add_exc_error mentions; for every other pair all counts are zero
Mentioned ==
  UNION {{<<excs[i][j], assets[i].path>> : j \in DOMAIN excs[i]} :
             i \in DOMAIN excs}
    \cup UNION {{<<k, errors[k][j]>> : j \in DOMAIN errors[k]} :
                 k \in (DOMAIN errors) \cap ExcKinds}
    \cup {<<cbs[i].kind, cbs[i].path>> : i \in {j \in DOMAIN cbs : cbs[j].st \in Recording}}

LedgerComplete ==
  /\ (DOMAIN errors) \ {"Empty record"} \subseteq ExcKinds
  /\ \A kp \in Mentioned :
       Occurrences(Get(errors, kp[1], <<>>), kp[2])
         = RecordCalls(kp[1], kp[2]) - InFlight(kp[1], kp[2])
  /\ Unfinished = {} =>
       \A k \in ExcKinds :
         SummaryCount(k) = CallsUpTo(Len(excs), k, Paths \cup {""})
LedgerGrows ==
  \A k \in DOMAIN errors :
    /\ k \in DOMAIN errors'
    /\ Len(errors'[k]) >= Len(errors[k])
    /\ SubSeq(errors'[k], 1, Len(errors[k])) = errors[k]

\* C11: in every interleaving of the control thread and the callables on the
\* worker pool, the ledger holds, per kind and asset, one entry for every
\* completed call of _add_exc_error (none lost, none overwritten), a step
\* only ever appends to the list of a kind, and once no callable is
\* unfinished the summary count of each kind is the number of record calls
\* made for it.
C11_LedgerAppendOnly == []LedgerComplete /\ [][LedgerGrows]_vars

\* two callables are inside _add_exc_error for the same kind at once: both
\* have looked the list up, neither has appended
C11_Witness ==
  /\ format = "pyout" /\ Len(cbs) = 2
  /\ cbs[1].st = "try_exc" /\ cbs[2].st = "try_exc"
  /\ cbs[1].kind = cbs[2].kind
  /\ errors[cbs[1].kind] = <<>>

\* --------------------------------------------- one asset after the other
\* what the callable of asset i returns when it runs alone, from what the
\* collaborators answered for that asset
SeqFn(i) ==
  LET p == assets[i].path
      r1 == IF SkipsExtraction(async_keys) THEN EmptyDict
            ELSE fn_try_rec(async_keys, format = "pyout", cbs[i].o_try)
  IN IF NeedsNwbVersion(p, r1, async_keys) /\ cbs[i].o_nwb.exc # "skip"
     THEN fn_fallback_rec(r1, cbs[i].o_nwb) ELSE r1
\* the record of asset i with every field resolved
SeqRow(i) ==
  IF assets[i].type = "dict" THEN assets[i].rec
  ELSE LET cheap == CheapPass(assets[i].path, fields)
       IN IF cheap.exc # None THEN add_exc_error_rec(cheap.rec)
          ELSE IF async_keys = {} THEN cheap.rec
          ELSE Update(cheap.rec, SeqFn(i))
\* how many entries asset i adds to kind k of the ledger
SeqEntries(i, k) ==
  IF assets[i].type = "dict"
  THEN IF k = "Empty record" /\ assets[i].rec = EmptyDict THEN 1 ELSE 0
  ELSE (IF CheapPass(assets[i].path, fields).exc = k THEN 1 ELSE 0)
       + (IF cbs[i].o_try.exc = k THEN 1 ELSE 0)
       + (IF cbs[i].o_nwb.exc = k THEN 1 ELSE 0)
\* the assets the loop dealt with: all but the one it raised on
Processed == IF raised # None THEN 1..(n - 1) ELSE 1..n
RECURSIVE SumEntries(_, _)
SumEntries(I, k) ==
  IF I = {} THEN 0
  ELSE LET i == CHOOSE x \in I : TRUE
       IN SeqEntries(i, k) + SumEntries(I \ {i}, k)

\* C12: whatever the size of the pool (1 or more) and the interleaving, a
\* finished run shows the records a run resolving one asset after the other
\* shows for the same assets, selection, mode and collaborator answers: the
\* same rows with the same field values in enumeration order, and the same
\* count per kind in the ledger summary.
C12_SameAsSequential ==
  pc = "done" =>
    /\ \A k \in DOMAIN sink : Row(k) = SeqRow(sink[k].idx)
    /\ \A k \in DOMAIN sink : k > 1 => sink[k - 1].idx < sink[k].idx
    /\ {sink[k].idx : k \in DOMAIN sink} = {i \in Processed : SeqRow(i) # EmptyDict}
    /\ \A k \in ExcKinds \cup {"Empty record"} :
         SummaryCount(k) = SumEntries(Processed, k)

\* a run on a pool of two whose callables recorded their failures in the
\* opposite of the enumeration order
C12_Witness ==
  /\ pc = "done" /\ jobs = 2 /\ format = "pyout"
  /\ Len(assets) = 2 /\ Len(sink) = 2
  /\ assets[1].path = "f.nwb" /\ assets[2].path = "z.zarr"
  /\ "ValueError" \in DOMAIN errors
  /\ errors["ValueError"] = <<"z.zarr", "f.nwb">>

\* ------------------------------------------------------------ media files
\* the media file of the last call could not be opened, or gave no frame
OpenOrDecodeFailure(c) == c.opens \in {"no", "raises"} \/ ~c.frame

\* C13 as claimed: with opencv importable, a call of validate_movie_file on
\* a media file that cannot be opened or yields no frame returns one problem
\* string and raises nothing when devel_debug is false, and raises when
\* devel_debug is true.
C13_MovieFailurePolicy ==
  (/\ vlast.entry = "validate_movie_file" /\ cv2
   /\ splitext(vlast.path) \in VIDEO_FILE_EXTENSIONS
   /\ OpenOrDecodeFailure(files[vlast.path][vlast.mtime])) =>
    IF vlast.devel_debug
    THEN vlast.res.exc # None
    ELSE vlast.res.exc = None /\ Len(vlast.res.errors) = 1

\* ============================================================ flattening
MaxItems == 2       \* elements of a list value, items of a dict value

FlatFieldNames == {"a", "d"}
InnerNames == {"k", "n"}
FlatScalars == {StrV("x"), StrV(""), IntV(0), IntV(3), NoneV}
FlatLists == {ListV(l) : l \in UNION {[1..k -> FlatScalars] : k \in 0..MaxItems}}
\* the items of a dict value: distinct keys, in insertion order
FlatItemSeqs ==
  {l \in UNION {[1..k -> InnerNames \X FlatScalars] : k \in 0..MaxItems} :
     \A i, j \in DOMAIN l : i # j => l[i][1] # l[j][1]}
FlatDicts == {DictV(l) : l \in FlatItemSeqs}
\* containers inside containers
FlatNested ==
  { ListV(<<ListV(<<StrV("x"), IntV(3)>>), StrV("y")>>),
    ListV(<<DictV(<<<<"k", StrV("x")>>>>)>>),
    DictV(<<<<"k", ListV(<<StrV("x"), StrV("y")>>)>>>>),
    DictV(<<<<"k", DictV(<<<<"n", IntV(3)>>>>)>>>>) }
FlatValues == FlatScalars \cup FlatLists \cup FlatDicts \cup FlatNested
FlatMetas == UNION {[S -> FlatValues] : S \in SUBSET FlatFieldNames}
\* the keys asked of the callable: the fields and any "<outer>_<inner>"
FlatKeys == FlatFieldNames \cup {f \o "_" \o vf : f \in FlatFieldNames, vf \in InnerNames}

InitF ==
  /\ LsIdle /\ ValidateIdle
  /\ \E m \in FlatMetas : flat = [NoFlat EXCEPT !.meta = m]

\* flatten_meta_to_pyout(meta), and the record fn builds from the same
\* metadata with flatten set (lines 377-380)
Flatten ==
  /\ ~flat.applied
  /\ flat' = [flat EXCEPT
       !.out = flatten_meta_to_pyout(flat.meta),
       !.fn_out = fn_try_rec(FlatKeys, TRUE, [exc |-> None, meta |-> flat.meta]),
       !.applied = TRUE]
  /\ UNCHANGED <<lsvars, vvars>>

NextF == Flatten
SpecF == InitF /\ [][NextF]_vars

\* --------------------------------------------------- flattening: claims
EmptyValues == {NoneV, StrV(""), IntV(0), ListV(<<>>), DictV(<<>>)}
IsList(v) == v[1] = "list"
IsDict(v) == v[1] = "dict"
IsScalar(v) == ~IsList(v) /\ ~IsDict(v)
\* "key: value" for every item of a dict value, joined with ", "
JoinedItems(v) ==
  StrV(JoinStr([i \in DOMAIN v[2] |-> v[2][i][1] \o ": " \o PyStr(v[2][i][2])], ", "))

\* C14: the flattened record has exactly the keys whose value is not empty
\* (None, "", 0, [] or {}); a scalar is kept as it is, a list becomes its
\* elements, each flattened and stringified, joined with ", ", a dict becomes
\* its "key: value" items joined with ", "; no value is a list or a dict.
C14_FlattenedRecord ==
  flat.applied =>
    LET m == flat.meta
        o == flat.out
    IN /\ DOMAIN o = {f \in DOMAIN m : m[f] \notin EmptyValues}
       /\ \A f \in DOMAIN o :
            /\ ~IsList(o[f]) /\ ~IsDict(o[f])
            /\ IsScalar(m[f]) => o[f] = m[f]
            /\ (IsList(m[f]) /\ \A i \in DOMAIN m[f][2] : IsScalar(m[f][2][i])) =>
                 o[f] = StrV(JoinStr([i \in DOMAIN m[f][2] |-> PyStr(m[f][2][i])], ", "))
            /\ IsDict(m[f]) => o[f] = JoinedItems(m[f])
       /\ (\E f \in DOMAIN m : m[f] = ListV(<<StrV("x"), IntV(3)>>)) =>
            \E f \in DOMAIN o : o[f] = StrV("x, 3")
       /\ (\E f \in DOMAIN m : m[f] = ListV(<<ListV(<<StrV("x"), IntV(3)>>), StrV("y")>>)) =>
            \E f \in DOMAIN o : o[f] = StrV("x, 3, y")
       /\ (\E f \in DOMAIN m : m[f] = ListV(<<DictV(<<<<"k", StrV("x")>>>>)>>)) =>
            \E f \in DOMAIN o : o[f] = StrV("k: x")

C14_Witness ==
  /\ flat.applied
  /\ flat.meta = [a |-> IntV(0), d |-> ListV(<<ListV(<<StrV("x"), IntV(3)>>), StrV("y")>>)]
  /\ flat.out = [d |-> StrV("x, 3, y")]

\* the top-level fields of the record that hold a non-empty dict
NestedFields == {f \in DOMAIN flat.meta : IsDict(flat.meta[f]) /\ flat.meta[f] # DictV(<<>>)}
Promoted(f) == {f \o "_" \o flat.meta[f][2][i][1] : i \in DOMAIN flat.meta[f][2]}

\* C16 as claimed: in the record fn builds with flatten set, every inner key
\* of a nested dict with a non-empty value is a top-level key
\* "<outer>_<inner>", and the outer key is gone.
C16_NestedPromoted ==
  flat.applied =>
    \A f \in NestedFields :
      /\ f \notin DOMAIN flat.fn_out
      /\ \A i \in DOMAIN flat.meta[f][2] :
           flat.meta[f][2][i][2] \notin EmptyValues =>
             (f \o "_" \o flat.meta[f][2][i][1]) \in DOMAIN flat.fn_out

\* C16 amended: in the record fn builds with flatten set, a nested dict stays
\* under its outer key as one string, its "inner: value" items joined with
\* ", ", and no key "<outer>_<inner>" is created.
C16_NestedJoined ==
  flat.applied =>
    \A f \in NestedFields :
      /\ f \in DOMAIN flat.fn_out
      /\ flat.fn_out[f] = JoinedItems(flat.meta[f])
      /\ Promoted(f) \cap DOMAIN flat.fn_out = {}

C16_Witness ==
  /\ flat.applied
  /\ "d" \in DOMAIN flat.meta
  /\ flat.meta["d"] = DictV(<<<<"k", StrV("x")>>, <<"n", IntV(3)>>>>)
  /\ flat.fn_out["d"] = StrV("k: x, n: 3")

\* ------------------------------------------------------ fatal errors in ls
ExitPath ==
  /\ raised # None => pc \in {"exiting", "done"}
  /\ (raised # None /\ pc # "done") => ENABLED Next
  /\ pc = "done" => out_state = "closed"
  /\ sink # <<>> => out_state # "new"
FinalizedOnce ==
  /\ out_state = "closed" => out_state' = "closed" /\ sink' = sink
  /\ (out_state # "closed" /\ out_state' = "closed") => out_state = "open"
  /\ Len(sink') >= Len(sink) /\ SubSeq(sink', 1, Len(sink)) = sink
  /\ raised # None => raised' = raised /\ sink' = sink

\* C15: once ls has raised on a ready record whose schemaVersion is not the
\* requested schema, the error stays raised, the run goes on to the end of the
\* with block and cannot stop before it, where the sink, opened before the
\* first record, is finalized once and for all; no step ever removes or
\* changes a record the sink was handed.
C15_FatalKeepsDelivered == []ExitPath /\ [][FinalizedOnce]_vars

C15_Witness ==
  /\ pc = "done" /\ raised = "NotImplementedError"
  /\ Len(assets) = 2 /\ Len(sink) = 1 /\ sink[1].idx = 1
  /\ out_state = "closed"

\* ------------------------------------------------- descriptor validation
\* the last call validated a descriptor that could be read and parsed
OnParsedDescriptor ==
  /\ vlast.entry \in {"validate_file", "validate_dandiset_yaml"}
  /\ vlast.path = dandiset_metadata_file
  /\ files[vlast.path][vlast.mtime].kind = "parsed"

\* C17 as claimed: a descriptor validated with no schema version requested
\* gets exactly the required-field check over identifier, name and
\* description, whatever it contains, and raises nothing; validate_file with
\* a schema version requested gives what validating the descriptor against
\* the versioned model for that version gives.
C17_DescriptorRules ==
  OnParsedDescriptor =>
    LET c == files[vlast.path][vlast.mtime] IN
    /\ vlast.schema_version = None =>
         vlast.res = Return(check_required_fields(c.meta,
                                required_dandiset_metadata_fields))
    /\ (vlast.entry = "validate_file" /\ vlast.schema_version # None) =>
         vlast.res = validate_dandiset_yaml_body(c, vlast.schema_version,
                                                 vlast.devel_debug)
====
